---- MODULE Spec2Model ----
(***************************************************************************)
(* Model of the dark pool backend canister                                 *)
(* (src/icp-backend/src/dark_pool_backend/lib.rs): the commit/reveal order *)
(* lifecycle and the state-channel lifecycle.  Every update call of the    *)
(* canister is one atomic action (the canister executes one message at a   *)
(* time).  The program variables keep the names of the statics they model. *)
(* The variables ret, commits, reveals and accepted are history  *)
(* variables: they record the last call with its result and count the      *)
(* successful calls; no action reads them in a guard that the code does    *)
(* not have.                                                               *)
(***************************************************************************)
EXTENDS Integers, Sequences, FiniteSets, TLC

\* ---------------------------------------------------------------- bounds
NumHashes == 1
MaxOrders == 2
MaxChannels == 1
MaxNonce == 2
MaxTime == 1

HashPool == <<"0xabc", "0xdef", "0x123", "0x456">>
OrderIdPool == <<"order-1", "order-2", "order-3", "order-4">>
ChannelIdPool == <<"channel-1", "channel-2", "channel-3", "channel-4">>

Hashes == {HashPool[i] : i \in 1..NumHashes}
OrderIds == {OrderIdPool[i] : i \in 1..MaxOrders}
ChannelIds == {ChannelIdPool[i] : i \in 1..MaxChannels}
Timestamps == {100, 200}
Traders == {"mock-trader", "alice"}
Committers == {"alice"}
Participants == {"A"}
Balances == {"100", "80"}
Signatures == {"sig", "forged"}

\* ------------------------------------------------------- Option and maps
None == [some |-> FALSE]
Some(v) == [some |-> TRUE, val |-> v]

EmptyMap == [k \in {} |-> 0]
Put(m, k, v) == [x \in (DOMAIN m) \cup {k} |-> IF x = k THEN v ELSE m[x]]
Remove(m, k) == [x \in (DOMAIN m) \ {k} |-> m[x]]

\* ----------------------------------------------------------------- state
VARIABLES ORDERS, STATE_CHANNELS, COMMITMENTS, MATCHES, IS_PAUSED,
          ENGINE_PUBLIC_KEY, now, ret, commits, reveals, accepted

vars == <<ORDERS, STATE_CHANNELS, COMMITMENTS, MATCHES, IS_PAUSED,
          ENGINE_PUBLIC_KEY, now, ret, commits, reveals, accepted>>

prog == <<ORDERS, STATE_CHANNELS, COMMITMENTS, MATCHES, IS_PAUSED,
          ENGINE_PUBLIC_KEY>>

\* The record of the last call: its name, whether it returned Ok and the error
\* text; for the channel calls also the channel id and the balance passed.
Ret(op, key, arg, ok, err) ==
    [op |-> op, key |-> key, arg |-> arg, ok |-> ok, err |-> err]

ErrPaused == "Trading is currently paused"
ErrDuplicateCommitment == "Commitment already exists"
ErrUnknownCommitment == "Commitment not found"
ErrCancel == "Order not found or cannot be cancelled"
ErrChannelNotFound == "State channel not found"
ErrNotActive == "State channel not found or not active"

\* The statics as the program image leaves them, before any call.
Pristine ==
    /\ ORDERS = None
    /\ STATE_CHANNELS = None
    /\ COMMITMENTS = None
    /\ MATCHES = None
    /\ IS_PAUSED = FALSE
    /\ ENGINE_PUBLIC_KEY = ""

Init ==
    /\ Pristine
    /\ now = 0
    /\ ret = Ret("none", "", "", TRUE, "")
    /\ commits = [h \in Hashes |-> 0]
    /\ reveals = [h \in Hashes |-> 0]
    /\ accepted = [c \in ChannelIds |-> 0]

\* The registry and the tables as seen through the Option: a store that is
\* None holds nothing.
Registry == IF COMMITMENTS.some THEN COMMITMENTS.val ELSE EmptyMap
Orders == IF ORDERS.some THEN ORDERS.val ELSE EmptyMap
Channels == IF STATE_CHANNELS.some THEN STATE_CHANNELS.val ELSE EmptyMap
Matches == IF MATCHES.some THEN MATCHES.val ELSE EmptyMap

\* Uuid::new_v4() behind the order and channel ids: the program only ever
\* compares ids for equality, so of the ids not yet in use the first of the
\* pool stands for all of them.  With the pool used up the result is an id in
\* use, and the action that asked for it is not taken.
NewUuid(pool, used) ==
    LET free == {i \in 1..Len(pool) : pool[i] \notin used}
    IN IF free = {} THEN pool[1]
       ELSE pool[CHOOSE i \in free : \A j \in free : i <= j]

\* ------------------------------------------------------------------ init
\* line 149: "0x" followed by the hex encoding of 32 zero bytes
EngineKey == "0x0000000000000000000000000000000000000000000000000000000000000000"

\* #[init] runs once, when the canister is installed, on the pristine image.
init ==
    /\ Pristine
    /\ ORDERS' = Some(EmptyMap)
    /\ STATE_CHANNELS' = Some(EmptyMap)
    /\ COMMITMENTS' = Some(EmptyMap)
    /\ MATCHES' = Some(EmptyMap)
    /\ ENGINE_PUBLIC_KEY' = EngineKey
    /\ IS_PAUSED' = FALSE
    /\ ret' = Ret("init", "", "", TRUE, "")
    /\ UNCHANGED <<now, commits, reveals, accepted>>

\* line 419: time() + 86400
WithdrawDelay == 86400

\* The canister clock (ic_cdk::api::time) advances between calls.  One step of
\* the clock is as long as the withdrawal delay, so that a deadline is seen
\* both pending and elapsed; the clock takes at most MaxTime steps.
Tick ==
    /\ now < MaxTime * WithdrawDelay
    /\ now' = now + WithdrawDelay
    /\ UNCHANGED <<prog, ret, commits, reveals, accepted>>

\* lines 194 and 223: the pause check of commit_order and reveal_order
trading_paused_mut == FALSE
trading_paused == IS_PAUSED

\* ---------------------------------------------------------- commit_order
\* line 206: the duplicate check
commit_exists_mut(commitments, commitment) == FALSE
commit_exists(commitments, commitment) == commitment \in DOMAIN commitments

commit_order(commitment, timestamp, trader) ==
    IF trading_paused
    THEN /\ ret' = Ret("commit_order", "", "", FALSE, ErrPaused)
         /\ UNCHANGED <<prog, now, commits, reveals, accepted>>
    ELSE LET commitments == Registry IN   \* lines 199-203: None becomes an empty map
         IF commit_exists(commitments, commitment)
         THEN /\ COMMITMENTS' = Some(commitments)
              /\ ret' = Ret("commit_order", "", "", FALSE, ErrDuplicateCommitment)
              /\ UNCHANGED <<ORDERS, STATE_CHANNELS, MATCHES, IS_PAUSED, ENGINE_PUBLIC_KEY,
                             now, commits, reveals, accepted>>
         ELSE /\ COMMITMENTS' = Some(Put(commitments, commitment, timestamp))
              /\ ret' = Ret("commit_order", "", "", TRUE, "")
              /\ commits' = [commits EXCEPT ![commitment] = @ + 1]
              /\ UNCHANGED <<ORDERS, STATE_CHANNELS, MATCHES, IS_PAUSED, ENGINE_PUBLIC_KEY,
                             now, reveals, accepted>>

\* ---------------------------------------------------------- reveal_order
\* lines 229-233: the commitment check; it is skipped while COMMITMENTS is None
reveal_rejects(store, commitment) ==
    store.some /\ commitment \notin DOMAIN store.val

\* lines 246-260: the mock order
MockOrder_mut(order_id, nonce, timestamp, commitment) ==
    [id |-> order_id, trader |-> "mock-trader", token_in |-> "ETH",
     token_out |-> "USDC", amount_in |-> "1.0", amount_out |-> "2000",
     is_buy |-> TRUE, nonce |-> nonce, timestamp |-> timestamp,
     commitment |-> commitment, is_revealed |-> TRUE, is_executed |-> TRUE,
     is_cancelled |-> FALSE]
MockOrder(order_id, nonce, timestamp, commitment) ==
    [id |-> order_id, trader |-> "mock-trader", token_in |-> "ETH",
     token_out |-> "USDC", amount_in |-> "1.0", amount_out |-> "2000",
     is_buy |-> TRUE, nonce |-> nonce, timestamp |-> timestamp,
     commitment |-> commitment, is_revealed |-> TRUE, is_executed |-> FALSE,
     is_cancelled |-> FALSE]

\* lines 265-267: the commitment is removed, if there is a registry
reveal_remove_mut(store, commitment) == store
reveal_remove(store, commitment) ==
    IF store.some THEN Some(Remove(store.val, commitment)) ELSE store

\* order_id stands for "order-" + Uuid::new_v4(): a version 4 UUID is drawn
\* from 2^122 values, modelled as an id that no stored order has.  At most
\* MaxOrders orders are created.
reveal_order(commitment, timestamp, nonce, order_id) ==
    IF trading_paused
    THEN /\ ret' = Ret("reveal_order", "", "", FALSE, ErrPaused)
         /\ UNCHANGED <<prog, now, commits, reveals, accepted>>
    ELSE IF reveal_rejects(COMMITMENTS, commitment)
    THEN /\ ret' = Ret("reveal_order", "", "", FALSE, ErrUnknownCommitment)
         /\ UNCHANGED <<prog, now, commits, reveals, accepted>>
    ELSE /\ order_id \in OrderIds \ DOMAIN Orders
         /\ ORDERS' = Some(Put(Orders, order_id,
                               MockOrder(order_id, nonce, timestamp, commitment)))
         /\ COMMITMENTS' = reveal_remove(COMMITMENTS, commitment)
         /\ ret' = Ret("reveal_order", "", "", TRUE, "")
         /\ reveals' = [reveals EXCEPT ![commitment] = @ + 1]
         /\ UNCHANGED <<STATE_CHANNELS, MATCHES, IS_PAUSED, ENGINE_PUBLIC_KEY,
                        now, commits, accepted>>

\* ---------------------------------------------------------- cancel_order
\* line 328: who may cancel, and when
may_cancel(order, trader) == order.trader = trader /\ ~order.is_executed

\* line 329: the order after the cancellation
cancelled_mut(order) == [order EXCEPT !.is_cancelled = ~order.is_cancelled]
cancelled(order) == [order EXCEPT !.is_cancelled = TRUE]

cancel_order_mut(order_id, trader) ==
    IF ORDERS.some /\ order_id \in DOMAIN ORDERS.val
    THEN /\ ORDERS' = Some([ORDERS.val EXCEPT ![order_id] = cancelled(@)])
         /\ ret' = IF may_cancel(ORDERS.val[order_id], trader)
                   THEN Ret("cancel_order", "", "", TRUE, "")
                   ELSE Ret("cancel_order", "", "", FALSE, ErrCancel)
         /\ UNCHANGED <<STATE_CHANNELS, COMMITMENTS, MATCHES, IS_PAUSED, ENGINE_PUBLIC_KEY,
                        now, commits, reveals, accepted>>
    ELSE /\ ret' = Ret("cancel_order", "", "", FALSE, ErrCancel)
         /\ UNCHANGED <<prog, now, commits, reveals, accepted>>

cancel_order(order_id, trader) ==
    IF ORDERS.some /\ order_id \in DOMAIN ORDERS.val /\ may_cancel(ORDERS.val[order_id], trader)
    THEN /\ ORDERS' = Some([ORDERS.val EXCEPT ![order_id] = cancelled(@)])
         /\ ret' = Ret("cancel_order", "", "", TRUE, "")
         /\ UNCHANGED <<STATE_CHANNELS, COMMITMENTS, MATCHES, IS_PAUSED, ENGINE_PUBLIC_KEY,
                        now, commits, reveals, accepted>>
    ELSE /\ ret' = Ret("cancel_order", "", "", FALSE, ErrCancel)
         /\ UNCHANGED <<prog, now, commits, reveals, accepted>>

\* ---------------------------------------------------- open_state_channel
\* lines 351-359: the channel as opened
NewChannel(channel_id, participant, initial_balance, t) ==
    [id |-> channel_id, participants |-> <<participant>>, balance |-> initial_balance,
     nonce |-> 0, last_update |-> t, is_active |-> TRUE,
     emergency_withdraw_time |-> None]

\* channel_id stands for "channel-" + Uuid::new_v4(), an id no channel has.
\* At most MaxChannels channels are opened.
open_state_channel(participant, initial_balance, channel_id) ==
    /\ channel_id \in ChannelIds \ DOMAIN Channels
    /\ STATE_CHANNELS' = Some(Put(Channels, channel_id,
                                  NewChannel(channel_id, participant, initial_balance, now)))
    /\ ret' = Ret("open_state_channel", channel_id, initial_balance, TRUE, "")
    /\ accepted' = [accepted EXCEPT ![channel_id] = 0]
    /\ UNCHANGED <<ORDERS, COMMITMENTS, MATCHES, IS_PAUSED, ENGINE_PUBLIC_KEY,
                   now, commits, reveals>>

\* -------------------------------------------------- update_state_channel
\* lines 374-376: the channel after an update
updated_mut(channel, new_balance, t) ==
    [channel EXCEPT !.balance = new_balance, !.nonce = @ + 2, !.last_update = t]
updated(channel, new_balance, t) ==
    [channel EXCEPT !.balance = new_balance, !.nonce = @ + 1, !.last_update = t]

\* The u64 nonce is capped at MaxNonce: a channel at the cap takes no update.
update_state_channel(channel_id, new_balance, signature) ==
    IF STATE_CHANNELS.some /\ channel_id \in DOMAIN STATE_CHANNELS.val
    THEN /\ STATE_CHANNELS.val[channel_id].nonce < MaxNonce
         /\ STATE_CHANNELS' = Some([STATE_CHANNELS.val EXCEPT
                                      ![channel_id] = updated(@, new_balance, now)])
         /\ ret' = Ret("update_state_channel", channel_id, new_balance, TRUE, "")
         /\ accepted' = [accepted EXCEPT ![channel_id] = @ + 1]
         /\ UNCHANGED <<ORDERS, COMMITMENTS, MATCHES, IS_PAUSED, ENGINE_PUBLIC_KEY,
                        now, commits, reveals>>
    ELSE /\ ret' = Ret("update_state_channel", channel_id, new_balance, FALSE, ErrChannelNotFound)
         /\ UNCHANGED <<prog, now, commits, reveals, accepted>>

\* -------------------------------------------------- emergency_withdrawal
\* lines 419-420: the channel after the withdrawal is initiated
withdrawn(channel, t) ==
    [channel EXCEPT !.emergency_withdraw_time = Some(t + WithdrawDelay),
                    !.is_active = FALSE]

emergency_withdrawal(channel_id) ==
    IF /\ STATE_CHANNELS.some
       /\ channel_id \in DOMAIN STATE_CHANNELS.val
       /\ STATE_CHANNELS.val[channel_id].is_active
    THEN /\ STATE_CHANNELS' = Some([STATE_CHANNELS.val EXCEPT
                                      ![channel_id] = withdrawn(@, now)])
         /\ ret' = Ret("emergency_withdrawal", channel_id, "", TRUE, "")
         /\ UNCHANGED <<ORDERS, COMMITMENTS, MATCHES, IS_PAUSED, ENGINE_PUBLIC_KEY,
                        now, commits, reveals, accepted>>
    ELSE /\ ret' = Ret("emergency_withdrawal", channel_id, "", FALSE, ErrNotActive)
         /\ UNCHANGED <<prog, now, commits, reveals, accepted>>

\* ------------------------------------------- pause_trading, resume_trading
pause_trading ==
    /\ IS_PAUSED' = TRUE
    /\ ret' = Ret("pause_trading", "", "", TRUE, "")
    /\ UNCHANGED <<ORDERS, STATE_CHANNELS, COMMITMENTS, MATCHES, ENGINE_PUBLIC_KEY,
                   now, commits, reveals, accepted>>

resume_trading ==
    /\ IS_PAUSED' = FALSE
    /\ ret' = Ret("resume_trading", "", "", TRUE, "")
    /\ UNCHANGED <<ORDERS, STATE_CHANNELS, COMMITMENTS, MATCHES, ENGINE_PUBLIC_KEY,
                   now, commits, reveals, accepted>>

Next ==
    \/ init
    \/ Tick
    \/ \E h \in Hashes, t \in Timestamps, tr \in Committers : commit_order(h, t, tr)
    \/ \E h \in Hashes, t \in Timestamps : reveal_order(h, t, 0, NewUuid(OrderIdPool, DOMAIN Orders))
    \/ \E o \in OrderIds, tr \in Traders : cancel_order(o, tr)
    \/ \E p \in Participants, b \in Balances :
          open_state_channel(p, b, NewUuid(ChannelIdPool, DOMAIN Channels))
    \/ \E c \in ChannelIds, b \in Balances, s \in Signatures : update_state_channel(c, b, s)
    \/ \E c \in ChannelIds : emergency_withdrawal(c)
    \/ pause_trading
    \/ resume_trading

Spec == Init /\ [][Next]_vars

\* The order subsystem alone, and the channel subsystem alone: the two share
\* no state, so each is explored with the other left as init leaves it.
NextOrders ==
    \/ init
    \/ \E h \in Hashes, t \in Timestamps, tr \in Committers : commit_order(h, t, tr)
    \/ \E h \in Hashes, t \in Timestamps : reveal_order(h, t, 0, NewUuid(OrderIdPool, DOMAIN Orders))
    \/ \E o \in OrderIds, tr \in Traders : cancel_order(o, tr)
    \/ pause_trading
    \/ resume_trading

SpecOrders == Init /\ [][NextOrders]_vars

NextChannels ==
    \/ init
    \/ Tick
    \/ \E p \in Participants, b \in Balances :
          open_state_channel(p, b, NewUuid(ChannelIdPool, DOMAIN Channels))
    \/ \E c \in ChannelIds, b \in Balances, s \in Signatures : update_state_channel(c, b, s)
    \/ \E c \in ChannelIds : emergency_withdrawal(c)

SpecChannels == Init /\ [][NextChannels]_vars

\* Both subsystems together, with the pause switch, each call with one
\* representative of every argument that no check of the code reads.
NextCanister ==
    \/ init
    \/ commit_order(HashPool[1], 100, "alice")
    \/ reveal_order(HashPool[1], 100, 0, NewUuid(OrderIdPool, DOMAIN Orders))
    \/ \E o \in OrderIds, tr \in Traders : cancel_order(o, tr)
    \/ open_state_channel("A", "100", NewUuid(ChannelIdPool, DOMAIN Channels))
    \/ \E c \in ChannelIds : update_state_channel(c, "80", "sig")
    \/ \E c \in ChannelIds : emergency_withdrawal(c)
    \/ pause_trading
    \/ resume_trading

SpecCanister == Init /\ [][NextCanister]_vars

\* ======================================================== properties

\* init has run: only init sets the engine key.
Initialised == ENGINE_PUBLIC_KEY = EngineKey

OrderFlagsOf(o) == <<o.is_revealed, o.is_executed, o.is_cancelled>>

\* C1: commit_order with a hash that is in the registry fails and leaves the
\* registry, with the timestamp stored for the hash, as it was; the error is
\* "Commitment already exists" unless trading is paused, when the pause check
\* of line 194 answers first.
C1_DuplicateCommitRejected ==
    [][\A h \in Hashes, t \in Timestamps, tr \in Committers :
         (commit_order(h, t, tr) /\ h \in DOMAIN Registry)
         => /\ ~ret'.ok
            /\ COMMITMENTS' = COMMITMENTS
            /\ (~IS_PAUSED => ret'.err = ErrDuplicateCommitment)]_vars

\* C1 witness: a commit of a hash was just rejected as a duplicate, and the
\* hash is still registered.
C1_Witness ==
    /\ ret.op = "commit_order"
    /\ ~ret.ok
    /\ ret.err = ErrDuplicateCommitment
    /\ DOMAIN Registry # {}

\* C2: after init, no hash has more successful reveals than successful commits.
C2_RevealsAtMostCommits ==
    Initialised => \A h \in Hashes : reveals[h] <= commits[h]

\* C2 witness: after init a hash was committed and revealed, and committed and
\* revealed a second time.
C2_Witness ==
    /\ Initialised
    /\ \E h \in Hashes : commits[h] = 2 /\ reveals[h] = 2

\* C3 (as claimed): reveal_order with a hash that is not in the registry fails,
\* creates no order and leaves the registry unchanged.
C3_UnknownRevealRejected ==
    [][\A h \in Hashes, t \in Timestamps, o \in OrderIds :
         (reveal_order(h, t, 0, o) /\ h \notin DOMAIN Registry)
         => /\ ~ret'.ok
            /\ ORDERS' = ORDERS
            /\ COMMITMENTS' = COMMITMENTS]_vars

\* C4 (as claimed, and only for a canister that init has set up): a hash that a
\* successful reveal has consumed is never in the registry again, and no later
\* reveal of it succeeds.
C4_ConsumedNeverReused ==
    [][\A h \in Hashes :
         (Initialised /\ reveals[h] > 0)
         => /\ h \notin DOMAIN Registry'
            /\ reveals'[h] = reveals[h]]_vars

\* C5 (as claimed): a successful reveal_order of h removes h, which was in the
\* registry before the call, and inserts exactly one order, under a fresh id,
\* Revealed and carrying h; the orders there were are unchanged.
C5_RevealConsumesAndCreates ==
    [][\A h \in Hashes, t \in Timestamps, o \in OrderIds :
         (reveal_order(h, t, 0, o) /\ ret'.ok)
         => /\ h \in DOMAIN Registry
            /\ h \notin DOMAIN Registry'
            /\ o \notin DOMAIN Orders
            /\ DOMAIN Orders' = DOMAIN Orders \cup {o}
            /\ \A p \in DOMAIN Orders : Orders'[p] = Orders[p]
            /\ Orders'[o].commitment = h
            /\ OrderFlagsOf(Orders'[o]) = <<TRUE, FALSE, FALSE>>]_vars

\* C6 (as claimed, and only for a canister that init has set up): cancel_order succeeds only for an existing order, by its
\* trader, while the order is Revealed (not executed, not cancelled); in every
\* other case it fails and leaves the orders unchanged.
C6_CancelOnlyRevealed ==
    [][\A o \in OrderIds, tr \in Traders :
         (Initialised /\ cancel_order(o, tr))
         => \/ /\ o \in DOMAIN Orders
               /\ Orders[o].trader = tr
               /\ OrderFlagsOf(Orders[o]) = <<TRUE, FALSE, FALSE>>
            \/ ~ret'.ok /\ ORDERS' = ORDERS]_vars

\* C7: order state is monotonic across every step: no order is both executed
\* and cancelled, an executed order is not cancelled afterwards, a cancelled
\* or executed order stays so, and is_revealed never becomes false.
C7_OrderStateMonotonic ==
    [][\A o \in DOMAIN Orders :
         /\ ~(Orders[o].is_executed /\ Orders[o].is_cancelled)
         /\ o \in DOMAIN Orders' =>
              /\ ~(Orders'[o].is_executed /\ Orders'[o].is_cancelled)
              /\ (Orders[o].is_executed => ~Orders'[o].is_cancelled)
              /\ (Orders[o].is_cancelled => Orders'[o].is_cancelled)
              /\ (Orders[o].is_executed => Orders'[o].is_executed)
              /\ (Orders[o].is_revealed => Orders'[o].is_revealed)]_vars

\* C7 witness: a cancel was just accepted for an order that stays cancelled
\* while another order is still Revealed.
C7_Witness ==
    /\ ret.op = "cancel_order"
    /\ ret.ok
    /\ \E o \in DOMAIN Orders : Orders[o].is_cancelled
    /\ \E p \in DOMAIN Orders : OrderFlagsOf(Orders[p]) = <<TRUE, FALSE, FALSE>>

\* C8 (as claimed): an update submitted twice in a row succeeds the first time
\* and is rejected the second time, with the channel unchanged.
C8_ReplayedUpdateRejected ==
    [][\A c \in ChannelIds, b \in Balances, s \in Signatures :
         (/\ update_state_channel(c, b, s)
          /\ ret.op = "update_state_channel" /\ ret.ok
          /\ ret.key = c /\ ret.arg = b)
         => ~ret'.ok /\ STATE_CHANNELS' = STATE_CHANNELS]_vars

\* C9: a channel's nonce is the number of updates accepted on it since it was
\* opened: 0 when opened, one more per accepted update, touched by nothing else.
C9_NonceCountsUpdates ==
    \A c \in DOMAIN Channels : Channels[c].nonce = accepted[c]

\* C9 witness: a channel took more than one update and then an emergency
\* withdrawal.
C9_Witness ==
    \E c \in DOMAIN Channels :
        /\ Channels[c].nonce >= 2
        /\ ~Channels[c].is_active

\* C10 (as claimed): update_state_channel on a channel that is not active is
\* rejected and leaves the channel unchanged.
C10_NoUpdateWhileClosing ==
    [][\A c \in ChannelIds, b \in Balances, s \in Signatures :
         (/\ update_state_channel(c, b, s)
          /\ c \in DOMAIN Channels
          /\ ~Channels[c].is_active)
         => ~ret'.ok /\ STATE_CHANNELS' = STATE_CHANNELS]_vars

\* ------------------------------------------------------ the dispute window
\* ic_cdk::api::time() counts nanoseconds since the epoch.
NanosPerSecond == 1000 * 1000 * 1000

\* line 419, the comment: the withdrawal is meant to open after 24 hours.
DisputeWindowSeconds == 24 * 60 * 60

\* d, a difference of two readings of time(), is the 24 hour dispute window.
IsDisputeWindow(d) ==
    d % NanosPerSecond = 0 /\ d \div NanosPerSecond = DisputeWindowSeconds

\* C11 (as claimed): emergency_withdrawal of an existing Active channel makes
\* it Closing with the deadline 24 hours after the call and leaves balance
\* and nonce alone; on any other channel id it fails and changes nothing.
C11_EmergencyWithdrawalSetsDeadline ==
    [][\A c \in ChannelIds :
         emergency_withdrawal(c)
         => IF c \in DOMAIN Channels /\ Channels[c].is_active
            THEN /\ ret'.ok
                 /\ ~Channels'[c].is_active
                 /\ Channels'[c].emergency_withdraw_time.some
                 /\ IsDisputeWindow(Channels'[c].emergency_withdraw_time.val - now)
                 /\ Channels'[c].balance = Channels[c].balance
                 /\ Channels'[c].nonce = Channels[c].nonce
            ELSE ~ret'.ok /\ STATE_CHANNELS' = STATE_CHANNELS]_vars

\* C12 (as claimed): an update accepted on a channel that is Closing carries
\* the next, higher nonce and reopens the channel: afterwards the channel is
\* Active and its pending deadline is cleared.
C12_CounterUpdateReopens ==
    [][\A c \in ChannelIds, b \in Balances, s \in Signatures :
         (/\ update_state_channel(c, b, s)
          /\ c \in DOMAIN Channels
          /\ ~Channels[c].is_active
          /\ ret'.ok)
         => /\ Channels'[c].is_active
            /\ Channels'[c].emergency_withdraw_time = None]_vars

\* The channel states of the specification, read off the two fields the code
\* keeps: Active is is_active; Closing is not active with a deadline pending.
Closing(channel) == ~channel.is_active /\ channel.emergency_withdraw_time.some

\* Channel c is Closed after the step: gone from the table, or neither Active
\* nor Closing.
ClosedAfter(c) ==
    \/ c \notin DOMAIN Channels'
    \/ ~Channels'[c].is_active /\ ~Channels'[c].emergency_withdraw_time.some

\* C13 (as claimed): a Closing channel cannot be finalized before its deadline,
\* and once now >= deadline some operation of the canister takes it to Closed.
C13_ExitCanBeFinalized ==
    \A c \in DOMAIN Channels :
        Closing(Channels[c]) =>
            IF now >= Channels[c].emergency_withdraw_time.val
            THEN ENABLED (NextChannels /\ ClosedAfter(c))
            ELSE ~ENABLED (NextChannels /\ ClosedAfter(c))

\* C14: while trading is paused every commit_order and reveal_order fails with
\* the pause error and changes neither the registry nor the orders; the
\* channel calls succeed or fail by the channel table alone and have their
\* usual effect, paused or not; resume_trading lifts the pause, after which
\* commit and reveal are no longer refused for it.
C14_PauseBlocksTradingOnly ==
    [][/\ \A o \in OrderIds :
            (\/ commit_order(HashPool[1], 100, "alice")
             \/ reveal_order(HashPool[1], 100, 0, o))
            => IF IS_PAUSED
               THEN /\ ~ret'.ok
                    /\ ret'.err = ErrPaused
                    /\ COMMITMENTS' = COMMITMENTS
                    /\ ORDERS' = ORDERS
               ELSE ret'.err # ErrPaused
       /\ \A c \in ChannelIds :
            /\ open_state_channel("A", "100", c)
               => /\ ret'.ok
                  /\ Channels' = Put(Channels, c, NewChannel(c, "A", "100", now))
            /\ update_state_channel(c, "80", "sig")
               => /\ ret'.ok <=> c \in DOMAIN Channels
                  /\ ret'.ok => Channels' = [Channels EXCEPT ![c] = updated(@, "80", now)]
                  /\ ~ret'.ok => Channels' = Channels
            /\ emergency_withdrawal(c)
               => /\ ret'.ok <=> (c \in DOMAIN Channels /\ Channels[c].is_active)
                  /\ ret'.ok => Channels' = [Channels EXCEPT ![c] = withdrawn(@, now)]
                  /\ ~ret'.ok => Channels' = Channels
       /\ resume_trading => ~IS_PAUSED'
       /\ pause_trading => IS_PAUSED']_vars

\* C14 witness: an emergency withdrawal was accepted while trading was paused.
C14_Witness ==
    /\ IS_PAUSED
    /\ ret.op = "emergency_withdrawal"
    /\ ret.ok
    /\ \E c \in DOMAIN Channels : Channels[c].nonce > 0
    /\ DOMAIN Registry # {}

\* C15: a call that returns an error leaves the commitment registry, the order
\* table, the channel table and the pause flag exactly as they were.
C15_ErrorsChangeNothing ==
    [][~ret'.ok => UNCHANGED <<COMMITMENTS, ORDERS, STATE_CHANNELS, IS_PAUSED>>]_vars

\* C15 witness: with orders, a commitment and a channel in place, a call has
\* just returned an error.
C15_Witness ==
    /\ ~ret.ok
    /\ ret.op \in {"commit_order", "reveal_order", "cancel_order",
                   "update_state_channel", "emergency_withdrawal"}
    /\ DOMAIN Orders # {}
    /\ DOMAIN Registry # {}
    /\ DOMAIN Channels # {}

\* -------------------------------------------------------- get_order_book
\* lines 125 and 136: the trading pairs init registers
TradingPairs == {"ETH/USDC", "QNT/USDT"}

\* lines 297-298: amount_out.parse::<f64>().unwrap_or(0.0), on the decimal
\* strings the canister stores; anything else is not a number and counts 0.
ParsePrice(str) ==
    CASE str = "2000" -> 2000
      [] str = "1.0" -> 1
      [] OTHER -> 0

\* line 286: the orders the book shows
Live(order) == ~order.is_cancelled /\ ~order.is_executed

\* lines 296-306: Vec::sort_by, a stable sort, on the parsed price only; sign
\* is -1 for the descending buys and 1 for the ascending sells.
RECURSIVE SortByPrice(_, _)
SortByPrice(seq, sign) ==
    IF seq = << >> THEN << >>
    ELSE LET front == SortByPrice(SubSeq(seq, 1, Len(seq) - 1), sign)
             x == seq[Len(seq)]
             k == Cardinality({i \in 1..Len(front) :
                     sign * ParsePrice(front[i].amount_out)
                       <= sign * ParsePrice(x.amount_out)})
         IN SubSeq(front, 1, k) \o <<x>> \o SubSeq(front, k + 1, Len(front))

IsBuy(order) == Live(order) /\ order.is_buy
IsSell(order) == Live(order) /\ ~order.is_buy

\* lines 275-309: the book built from values, the orders in the order
\* orders.values() yields them; trading_pair is never read.
get_order_book(trading_pair, values) ==
    [buys |-> SortByPrice(SelectSeq(values, IsBuy), -1),
     sells |-> SortByPrice(SelectSeq(values, IsSell), 1)]

\* line 285: HashMap::values() yields the orders in an unspecified order.
Iterations(table) ==
    LET n == Cardinality(DOMAIN table)
    IN {[i \in 1..n |-> table[f[i]]] :
          f \in {g \in [1..n -> DOMAIN table] : \A i, j \in 1..n : g[i] = g[j] => i = j}}

\* Every book get_order_book can return for the pair in the current state.
OrderBooks(trading_pair) ==
    {get_order_book(trading_pair, values) : values \in Iterations(Orders)}

Range(seq) == {seq[i] : i \in 1..Len(seq)}

\* The pair an order trades, named as the keys of TRADING_PAIRS are.
PairOf(order) ==
    CASE order.token_in = "ETH" /\ order.token_out = "USDC" -> "ETH/USDC"
      [] order.token_in = "QNT" /\ order.token_out = "USDT" -> "QNT/USDT"
      [] OTHER -> "other"

\* C16 (as claimed): the book for a pair holds exactly the Revealed orders of
\* that pair, the buys under buys and the sells under sells (looked at once
\* init has run).
C16_BookIsRevealedOrdersOfPair ==
    Initialised => \A pair \in TradingPairs : \A book \in OrderBooks(pair) :
        /\ Range(book.buys) \cup Range(book.sells)
             = {Orders[o] : o \in {p \in DOMAIN Orders :
                    /\ OrderFlagsOf(Orders[p]) = <<TRUE, FALSE, FALSE>>
                    /\ PairOf(Orders[p]) = pair}}
        /\ \A order \in Range(book.buys) : order.is_buy
        /\ \A order \in Range(book.sells) : ~order.is_buy

\* seq is in price-time priority: by price in the direction of sign (-1
\* descending, 1 ascending), and at equal price by timestamp ascending.
PriceTimePriority(seq, sign) ==
    \A i, j \in 1..Len(seq) : i < j =>
        /\ sign * ParsePrice(seq[i].amount_out) <= sign * ParsePrice(seq[j].amount_out)
        /\ ParsePrice(seq[i].amount_out) = ParsePrice(seq[j].amount_out)
             => seq[i].timestamp <= seq[j].timestamp

\* C17 (as claimed): every book get_order_book returns is in price-time
\* priority: buys by price descending, sells by price ascending, and of two
\* orders with the same price the one with the earlier timestamp first
\* (looked at once init has run).
C17_BookInPriceTimePriority ==
    Initialised => \A pair \in TradingPairs : \A book \in OrderBooks(pair) :
        /\ PriceTimePriority(book.buys, -1)
        /\ PriceTimePriority(book.sells, 1)

\* C18 (as claimed): a channel has a deadline exactly when it is not Active,
\* the deadline emergency_withdrawal sets is the time of the call plus the
\* 24 hour dispute window, and no step changes the deadline of a channel that
\* stays Closing.
C18_DeadlineFixed ==
    [][\A c \in ChannelIds :
         /\ c \in DOMAIN Channels'
              => (Channels'[c].emergency_withdraw_time.some <=> ~Channels'[c].is_active)
         /\ (emergency_withdrawal(c) /\ ret'.ok)
              => IsDisputeWindow(Channels'[c].emergency_withdraw_time.val - now)
         /\ (/\ c \in DOMAIN Channels
             /\ Closing(Channels[c])
             /\ Closing(Channels'[c]))
              => Channels'[c].emergency_withdraw_time
                   = Channels[c].emergency_withdraw_time]_vars

\* lines 490-507: the total_matches field of get_network_stats
total_matches == Cardinality(DOMAIN Matches)

\* C19: no step marks an order Executed or records a Match: every order has
\* is_executed = FALSE and total_matches is 0 before and after every step, a
\* Revealed order stays Revealed or becomes Cancelled, and cancel_order on a
\* Revealed order succeeds, cancelling it, exactly when the trader given is
\* the order's trader.
C19_NothingEverExecutes ==
    [][/\ \A o \in DOMAIN Orders : ~Orders[o].is_executed
       /\ \A o \in DOMAIN Orders' : ~Orders'[o].is_executed
       /\ total_matches = 0
       /\ total_matches' = 0
       /\ \A o \in DOMAIN Orders :
            OrderFlagsOf(Orders[o]) = <<TRUE, FALSE, FALSE>>
            => /\ o \in DOMAIN Orders'
               /\ OrderFlagsOf(Orders'[o]) \in {<<TRUE, FALSE, FALSE>>, <<TRUE, FALSE, TRUE>>}
       /\ \A o \in OrderIds, tr \in Traders :
            (/\ cancel_order(o, tr)
             /\ o \in DOMAIN Orders
             /\ OrderFlagsOf(Orders[o]) = <<TRUE, FALSE, FALSE>>)
            => /\ ret'.ok <=> tr = Orders[o].trader
               /\ ret'.ok => OrderFlagsOf(Orders'[o]) = <<TRUE, FALSE, TRUE>>
               /\ ~ret'.ok => ORDERS' = ORDERS]_vars

\* Every order id is in use and every order is Revealed, so the cancel_order
\* that was just refused was refused on a Revealed order.
C19_Witness ==
    /\ ret.op = "cancel_order"
    /\ ~ret.ok
    /\ DOMAIN Orders = OrderIds
    /\ \A o \in DOMAIN Orders : OrderFlagsOf(Orders[o]) = <<TRUE, FALSE, FALSE>>

\* C20 (as claimed): while the commitment store is still uninitialised
\* (COMMITMENTS is None), reveal_order with any hash is rejected as it is for
\* an empty registry, with "Commitment not found" unless trading is paused,
\* and creates no order.
C20_RevealRejectedBeforeInit ==
    [][\A h \in Hashes, t \in Timestamps, o \in OrderIds :
         (reveal_order(h, t, 0, o) /\ ~COMMITMENTS.some)
         => /\ ~ret'.ok
            /\ ret'.err = (IF IS_PAUSED THEN ErrPaused ELSE ErrUnknownCommitment)
            /\ DOMAIN Orders' = DOMAIN Orders]_vars
====
